---- MODULE Spec2Model ----
(***************************************************************************)
(* GARNET primary script (scripts/garnet.py): the orchestration of the     *)
(* five sub scripts, run after run, over one filesystem.                   *)
(*                                                                         *)
(* Python strings are sequences of one-character strings; the empty        *)
(* string '' is << >>.  A configuration file is a function from the keys   *)
(* it holds to their values: a key the file does not hold is outside its   *)
(* DOMAIN, and config.get then raises NoOptionError.                       *)
(***************************************************************************)
EXTENDS Integers, Sequences, FiniteSets, TLC

\* ------------------------------------------------------------------ bounds
\* Number of consecutive runs of the script on the same filesystem.
MaxRuns == 2
\* Number of places in which a scenario departs from the documented
\* configuration (all keys set, all input files on disk, one argument).
MaxDeviations == 2

\* ------------------------------------------------------- Python values
\* None and "unbound local" are no strings: their one element is not a
\* character.
None == << "<None>" >>
Unbound == << "<unbound>" >>
Empty == << >>

\* os.system's return values: 0, or the wait status of a failed child.
Results == {0, 256}

\* ------------------------------------------------------- string literals
EventsWithin == << "e","v","e","n","t","s","W","i","t","h","i","n" >>
EventsToGenes ==
    << "/","e","v","e","n","t","s","_","t","o","_","g","e","n","e","s",".","x","l","s" >>
WithMotifs == << "_","w","i","t","h","_","m","o","t","i","f","s",".","t","x","t" >>
RegressionResults ==
    << "r","e","g","r","e","s","s","i","o","n","_","r","e","s","u","l","t","s",".","x","l","s" >>
TfIds == << "_","t","f","i","d","s",".","t","x","t" >>
UpTfIds == << "_","u","p","_","t","f","i","d","s",".","t","x","t" >>
SourceNames == << "_","s","o","u","r","c","e","_","n","a","m","e","s",".","t","x","t" >>
DotTgm == << ".","t","g","m" >>
DotPkl == << ".","p","k","l" >>
DotFsa == << ".","f","s","a" >>
DotXls == << ".","x","l","s" >>
DotTxt == << ".","t","x","t" >>
DotTamo == << ".","t","a","m","o" >>
DotFasta == << ".","f","a","s","t","a" >>
Default2000 == << "2","0","0","0" >>
Default1 == << "1" >>
Default005 == << "0",".","0","5" >>
FalseStr == << "F","a","l","s","e" >>
TrueStr == << "T","r","u","e" >>

\* ------------------------------------------------------ library functions
\* Whether regular expression pat (letters, and "." for any character)
\* matches s at position i.
MatchAt(pat, s, i) ==
    /\ i + Len(pat) - 1 <= Len(s)
    /\ \A j \in 1..Len(pat) : pat[j] = "." \/ pat[j] = s[i + j - 1]

\* The least element of a set of positions, 0 when it is empty.
Least(hits) == IF hits = {} THEN 0 ELSE CHOOSE j \in hits : \A k \in hits : j <= k

\* The first position from i on where pat matches s, 0 when there is none.
FirstMatch(pat, s, i) ==
    Least({j \in i..(Len(s) - Len(pat) + 1) : MatchAt(pat, s, j)})

RECURSIVE ReSubFrom(_, _, _, _)
ReSubFrom(pat, repl, s, i) ==
    LET j == FirstMatch(pat, s, i)
    IN IF j = 0 THEN SubSeq(s, i, Len(s))
       ELSE SubSeq(s, i, j - 1) \o repl \o ReSubFrom(pat, repl, s, j + Len(pat))

\* re.sub(pat, repl, s): every non-overlapping match, leftmost first.
ReSub(pat, repl, s) == ReSubFrom(pat, repl, s, 1)

\* str.rfind(c): the last position of c in s, 0 when there is none.
RFind(s, c) ==
    LET at == {i \in 1..Len(s) : s[i] = c}
    IN IF at = {} THEN 0 ELSE CHOOSE i \in at : \A j \in at : j <= i

\* os.path.basename(p)
Basename(p) == SubSeq(p, RFind(p, "/") + 1, Len(p))

\* os.path.splitext(p)[0]: p up to its last dot, when that dot lies in the
\* last component and some character other than a dot precedes it there.
SplitextRoot(p) ==
    LET sep == RFind(p, "/")
        dot == RFind(p, ".")
    IN IF dot > sep /\ \E k \in (sep + 1)..(dot - 1) : p[k] # "."
       THEN SubSeq(p, 1, dot - 1)
       ELSE p

\* os.path.exists(p) on filesystem f (a set of paths).
Exists(f, p) == p \in f


\* ------------------------------------------------------ external programs
\* What one run of a sub script can do: return 0 having written its output,
\* or return non-zero having written nothing or a partial output.
Outcomes ==
    { [res |-> 0, wrote |-> TRUE],
      [res |-> 256, wrote |-> FALSE],
      [res |-> 256, wrote |-> TRUE] }

\* The filesystem after a sub script with outcome out ran with the output
\* paths outs.
ToolEffect(f, outs, out) == IF out.wrote THEN f \cup outs ELSE f

\* The filesystem after `mkdir dir` returned mk.
MkdirEffect(f, dir, mk) == IF mk = 0 THEN f \cup {dir} ELSE f

\* ------------------------------------------------------------ the stages
\* A stage function is modelled in two parts: what it settles before it
\* calls os.system (its paths, its command, whether the command is run at
\* all), and what it returns once the command has come back: its return
\* values (res, out), the filesystem it leaves and the os.system calls it
\* made, in order.

\* The outcome put in where no command is run.
NotRun == [res |-> 0, wrote |-> FALSE]

\* The outcomes open to a command that is run, or not.
OutcomesIf(invoked) == IF invoked THEN Outcomes ELSE {NotRun}

\* The output directory and file of the first step.
MapOutdir(bedfile, window, outdir) ==
    IF outdir = None
    THEN SplitextRoot(Basename(bedfile)) \o EventsWithin \o window
    ELSE outdir

\* Mutant: the first step runs its command whatever is there.
MapMustRunAlways(f, outf) == TRUE

\* Whether the first step runs its command: the output file is not there.
MapMustRun(f, outf) == ~ Exists(f, outf)

\* Mutant: the first step picks another directory when its own is there.
mapGenesToRegionsPlanFresh(genefile, xreffile, bedfile, window, outdirOpt, f) ==
    LET named == MapOutdir(bedfile, window, outdirOpt)
        outdir == IF Exists(f, named) THEN named \o << "1" >> ELSE named
        outf == outdir \o EventsToGenes
    IN [ outdir |-> outdir,
         out |-> outf,
         needDir |-> ~ Exists(f, outdir),
         invoked |-> MapMustRun(f, outf),
         cmd |-> [ prog |-> "map_peaks_to_known_genes.py",
                   upstreamWindow |-> window,
                   downstreamWindow |-> window,
                   mapOutput |-> outf,
                   symbolXref |-> xreffile,
                   genefile |-> genefile,
                   bedfile |-> bedfile ] ]

mapGenesToRegionsPlan(genefile, xreffile, bedfile, window, outdirOpt, f) ==
    LET outdir == MapOutdir(bedfile, window, outdirOpt)
        outf == outdir \o EventsToGenes
    IN [ outdir |-> outdir,
         out |-> outf,
         needDir |-> ~ Exists(f, outdir),
         invoked |-> MapMustRun(f, outf),
         cmd |-> [ prog |-> "map_peaks_to_known_genes.py",
                   upstreamWindow |-> window,
                   downstreamWindow |-> window,
                   mapOutput |-> outf,
                   symbolXref |-> xreffile,
                   genefile |-> genefile,
                   bedfile |-> bedfile ] ]

mapGenesToRegions(plan, f, mk, out) ==
    LET f1 == IF plan.needDir THEN MkdirEffect(f, plan.outdir, mk) ELSE f
        mkCall == IF plan.needDir
                  THEN << [stage |-> "mkdir",
                           cmd |-> [prog |-> "mkdir", dir |-> plan.outdir],
                           res |-> mk] >>
                  ELSE << >>
    IN IF plan.invoked
       THEN [ res |-> out.res, out |-> plan.out,
              fs |-> ToolEffect(f1, {plan.out, plan.outdir}, out),
              calls |-> Append(mkCall, [stage |-> "GeneRegionMapping",
                                        cmd |-> plan.cmd, res |-> out.res]) ]
       ELSE [ res |-> 0, out |-> plan.out, fs |-> f1, calls |-> mkCall ]

\* The output file of the second step.
MotifOut(fastafile, closest_gene_file) ==
    IF closest_gene_file = Empty
    THEN ReSub(DotFasta, WithMotifs, fastafile)
    ELSE ReSub(DotXls, WithMotifs, closest_gene_file)

\* Whether the second step is bypassed: its output file is there.
MotifCached(f, motif_binding_out) == Exists(f, motif_binding_out)

motifScanningPlan(tamo_file, fastafile, numthreads, genome, closest_gene_file, f) ==
    LET motif_binding_out == MotifOut(fastafile, closest_gene_file)
    IN [ out |-> motif_binding_out,
         invoked |-> ~ MotifCached(f, motif_binding_out),
         cmd |-> [ prog |-> "motif_fsa_scores.py",
                   motif |-> tamo_file,
                   genome |-> genome,
                   outfile |-> motif_binding_out,
                   genefile |-> closest_gene_file,
                   threads |-> numthreads,
                   fastafile |-> fastafile ] ]

\* Mutant: the second step runs its command a second time when it failed.
motifScanningRetry(plan, f, out) ==
    IF plan.invoked
    THEN [ res |-> out.res, out |-> plan.out,
           fs |-> ToolEffect(f, {plan.out}, out),
           calls |-> IF out.res = 0
                     THEN << [stage |-> "MotifScanning", cmd |-> plan.cmd,
                              res |-> out.res] >>
                     ELSE << [stage |-> "MotifScanning", cmd |-> plan.cmd,
                              res |-> out.res],
                             [stage |-> "MotifScanning", cmd |-> plan.cmd,
                              res |-> out.res] >> ]
    ELSE [ res |-> 0, out |-> plan.out, fs |-> f, calls |-> << >> ]

motifScanning(plan, f, out) ==
    IF plan.invoked
    THEN [ res |-> out.res, out |-> plan.out,
           fs |-> ToolEffect(f, {plan.out}, out),
           calls |-> << [stage |-> "MotifScanning", cmd |-> plan.cmd,
                         res |-> out.res] >> ]
    ELSE [ res |-> 0, out |-> plan.out, fs |-> f, calls |-> << >> ]

\* The matrix file and the pickle file of the third step.
MatFile(motif_binding_out) == ReSub(DotTxt, DotTgm, motif_binding_out)
PklFile(matfile) == ReSub(DotTgm, DotPkl, matfile)

\* Whether the third step is bypassed: its pickle file is there.
MatrixCached(f, pklfile) == Exists(f, pklfile)

createBindingMatrixPlan(motif_binding_out, outf, fastafile, tamo_file, use_uniprot, f) ==
    LET matfile == MatFile(motif_binding_out)
        tfs0 == IF use_uniprot
                THEN ReSub(DotTamo, UpTfIds, tamo_file)
                ELSE ReSub(DotTamo, TfIds, tamo_file)
        extra_file == ReSub(DotTamo, SourceNames, Basename(tamo_file))
        tfids == IF Exists(f, extra_file) THEN tfs0 \o << "," >> \o extra_file ELSE tfs0
        pklfile == PklFile(matfile)
    IN [ out |-> pklfile,
         matfile |-> matfile,
         invoked |-> ~ MatrixCached(f, pklfile),
         cmd |-> [ prog |-> "get_window_binding_matrix.py",
                   motifs |-> motif_binding_out,
                   mapping |-> outf,
                   fastafile |-> fastafile,
                   motifIdList |-> tfids,
                   outfile |-> matfile ] ]

createBindingMatrix(plan, f, out) ==
    IF plan.invoked
    THEN [ res |-> out.res, out |-> plan.out,
           fs |-> ToolEffect(f, {plan.matfile, plan.out}, out),
           calls |-> << [stage |-> "BindingMatrixConstruction", cmd |-> plan.cmd,
                         res |-> out.res] >> ]
    ELSE [ res |-> 0, out |-> plan.out, fs |-> f, calls |-> << >> ]

\* Mutant: the regression writes where the pickle file is.
RegressionOutInPlace(pickle_file) == pickle_file

\* The output file of the regression step.
RegressionOut(pickle_file) == ReSub(DotPkl, RegressionResults, pickle_file)

\* Mutant: the q-value threshold is looked at first.
ThreshQvalFirst(pvalT, qvalT) ==
    IF qvalT = None \/ qvalT = Empty
    THEN IF pvalT = None \/ pvalT = Empty THEN Default005 ELSE pvalT
    ELSE qvalT

\* The threshold of the regression command.
Thresh(pvalT, qvalT) ==
    IF pvalT = None \/ pvalT = Empty
    THEN IF qvalT = None \/ qvalT = Empty THEN Default005 ELSE qvalT
    ELSE pvalT

\* Whether the regression command carries --use-qval.
UseQval(pvalT, qvalT) ==
    (pvalT = None \/ pvalT = Empty) /\ ~ (qvalT = None \/ qvalT = Empty)

\* Whether the regression step runs its command: no output file is there.
RegressionMustRun(f, outdir) == ~ Exists(f, outdir)

getTfsFromRegressionPlan(pickle_file, expressionfile, pvalT, qvalT, f) ==
    LET outdir == RegressionOut(pickle_file)
    IN [ out |-> outdir,
         invoked |-> RegressionMustRun(f, outdir),
         cmd |-> [ prog |-> "motif_regression.py",
                   outdir |-> outdir,
                   pickle |-> pickle_file,
                   expression |-> expressionfile,
                   useQval |-> UseQval(pvalT, qvalT),
                   thresh |-> Thresh(pvalT, qvalT) ] ]

getTfsFromRegression(plan, f, out) ==
    IF plan.invoked
    THEN [ res |-> out.res, out |-> plan.out,
           fs |-> ToolEffect(f, {plan.out}, out),
           calls |-> << [stage |-> "Regression", cmd |-> plan.cmd,
                         res |-> out.res] >> ]
    ELSE [ res |-> 0, out |-> plan.out, fs |-> f, calls |-> << >> ]

\* ------------------------------------------------------------- scenarios
\* The documented configuration file (the module docstring): every key set.
Keys ==
    { "genefile", "bedfile", "xreffile", "windowsize",
      "tamo_file", "genome", "numthreads", "fastafile",
      "doNetwork", "tfDelimiter",
      "expressionFile", "pvalThresh", "qvalThresh" }

DocValue(k) ==
    CASE k = "genefile" -> << "g" >>
      [] k = "bedfile" -> << "d", "/", "p", ".", "b" >>
      [] k = "xreffile" -> << "r" >>
      [] k = "windowsize" -> Default2000
      [] k = "tamo_file" -> << "m", ".", "t", "a", "m", "o" >>
      [] k = "genome" -> << "h", "g" >>
      [] k = "numthreads" -> << "4" >>
      [] k = "fastafile" -> << "s", ".", "f", "a" >>
      [] k = "doNetwork" -> FalseStr
      [] k = "tfDelimiter" -> << "." >>
      [] k = "expressionFile" -> << "x" >>
      [] k = "pvalThresh" -> << "0", ".", "0", "1" >>
      [] k = "qvalThresh" -> Empty

\* The other values a key takes when it is in the file: blank (set, for the
\* key the documented file leaves blank), and True for doNetwork.
OtherValue(k, a) ==
    CASE k = "doNetwork" /\ a = 3 -> TrueStr
      [] k = "qvalThresh" -> << "0", ".", "1" >>
      [] OTHER -> Empty

\* The places where a scenario can depart from the documented one, and the
\* number of ways it can: a key is left out (1) or given another value
\* (2, 3); the script gets no argument (1) or two (2); --outdir is given;
\* --allGenes is given; an input file is not on disk; the file of source
\* names is on disk.
Places ==
    Keys \cup { "args", "outdir", "allgenes",
                "tamo_on_disk", "fasta_on_disk", "expr_on_disk", "extra_on_disk" }

Ways(x) ==
    CASE x = "doNetwork" -> 3
      [] x \in Keys \/ x = "args" -> 2
      [] OTHER -> 1

NoDeviation == [x \in Places |-> 0]

RECURSIVE Deviations(_)
Deviations(n) ==
    IF n = 0 THEN {NoDeviation}
    ELSE LET less == Deviations(n - 1)
         IN less \cup { [d EXCEPT ![x] = a] :
                          d \in less, x \in Places, a \in 1..3 }

Scenarios ==
    { d \in Deviations(MaxDeviations) : \A x \in Places : d[x] <= Ways(x) }

ArgsOf(d) == IF d["args"] = 0 THEN 1 ELSE IF d["args"] = 1 THEN 0 ELSE 2

OptsOf(d) ==
    [ outdir |-> IF d["outdir"] = 0 THEN None ELSE << "o" >>,
      allgenes |-> d["allgenes"] # 0 ]

ConfigOf(d) ==
    [ k \in {k \in Keys : d[k] # 1} |->
        IF d[k] = 0 THEN DocValue(k) ELSE OtherValue(k, d[k]) ]

DiskOf(d) ==
    (IF d["tamo_on_disk"] = 0 THEN {DocValue("tamo_file")} ELSE {})
    \cup (IF d["fasta_on_disk"] = 0 THEN {DocValue("fastafile")} ELSE {})
    \cup (IF d["expr_on_disk"] = 0 THEN {DocValue("expressionFile")} ELSE {})
    \cup (IF d["extra_on_disk"] = 0 THEN {}
          ELSE {ReSub(DotTamo, SourceNames, Basename(DocValue("tamo_file")))})

\* ----------------------------------------------------------------- state
VARIABLES
    argc,            \* len(args)
    opts,            \* the options: outdir, allgenes
    cfg,             \* the configuration file
    fs,              \* the paths that exist
    run,             \* the number of this run
    pc,              \* where main is, or how it ended
    exitcode,        \* the exit status of the process, -1 while it runs
    error,           \* the exception that ended the run
    keeprunning,     \* main's locals
    outfile,
    binding_out,
    binding_matrix,
    tfs,
    unit,            \* the arguments of a function called on its own
    calls,           \* history: the os.system calls of this run
    prev,            \* history: how the run before this one ended
    succeeded        \* history: the stages whose command has returned 0

vars == << argc, opts, cfg, fs, run, pc, exitcode, error, keeprunning,
           outfile, binding_out, binding_matrix, tfs, unit, calls, prev, succeeded >>

inputs == << argc, opts, cfg, unit >>
locals == << keeprunning, outfile, binding_out, binding_matrix, tfs >>

\* No exception; the exceptions main can die of.
NoError == [type |-> "", name |-> ""]
NoOptionError(key) == [type |-> "NoOptionError", name |-> key]
UnboundLocalError(var) == [type |-> "UnboundLocalError", name |-> var]

\* A process of the script at its start: no local is bound yet.
StartState ==
    [ pc |-> "start", exitcode |-> -1, error |-> NoError, keeprunning |-> 0,
      outfile |-> Unbound, binding_out |-> Unbound, binding_matrix |-> Unbound,
      tfs |-> Unbound, calls |-> << >> ]

\* Before the first run there is no run to look back on.
NoRun == [StartState EXCEPT !.pc = "none"]

\* The stages among the calls cs whose command returned 0.
Returned0(cs) == {cs[i].stage : i \in {i \in 1..Len(cs) : cs[i].res = 0}}

\* What a run leaves to look back on.
RunState ==
    [ pc |-> pc, exitcode |-> exitcode, error |-> error,
      keeprunning |-> keeprunning, outfile |-> outfile,
      binding_out |-> binding_out, binding_matrix |-> binding_matrix,
      tfs |-> tfs, calls |-> calls ]

\* No function is called on its own.
NoUnit == [pickle_file |-> None, expressionfile |-> None, pvalT |-> None, qvalT |-> None]

Init ==
    /\ \E d \in Scenarios :
          /\ argc = ArgsOf(d)
          /\ opts = OptsOf(d)
          /\ cfg = ConfigOf(d)
          /\ fs = DiskOf(d)
    /\ run = 1
    /\ prev = NoRun
    /\ succeeded = {}
    /\ unit = NoUnit
    /\ pc = StartState.pc
    /\ exitcode = StartState.exitcode
    /\ error = StartState.error
    /\ keeprunning = StartState.keeprunning
    /\ outfile = StartState.outfile
    /\ binding_out = StartState.binding_out
    /\ binding_matrix = StartState.binding_matrix
    /\ tfs = StartState.tfs
    /\ calls = StartState.calls

\* ------------------------------------------------------- ends of a run
\* sys.exit() at a labelled place: exit status 0.
SysExit(label) ==
    /\ pc' = label
    /\ exitcode' = 0
    /\ error' = error

\* An uncaught exception: traceback, exit status 1.
Raise(e) ==
    /\ pc' = "crashed"
    /\ exitcode' = 1
    /\ error' = e

\* main continues at the next step.
Goto(label) ==
    /\ pc' = label
    /\ exitcode' = exitcode
    /\ error' = error

\* Mutant: the check after a step is left out.
StopOrGoNever(res, stop, go) == Goto(go)

\* The check after a step: a non-zero keeprunning stops the run.
StopOrGo(res, stop, go) == IF res # 0 THEN SysExit(stop) ELSE Goto(go)

\* config.get on each of keys, in this order: the first key the file does
\* not hold, "" when it holds them all.
FirstMissing(keys) ==
    LET gone == {i \in 1..Len(keys) : keys[i] \notin DOMAIN cfg}
    IN IF gone = {} THEN "" ELSE keys[Least(gone)]

\* The window, thread count and delimiter main settles on.
Window(c) == IF c["windowsize"] = None THEN Default2000 ELSE c["windowsize"]
NumThreads(c) == IF c["numthreads"] = None THEN Default1 ELSE c["numthreads"]
Delim(c) == IF c["tfDelimiter"] = None THEN Empty ELSE c["tfDelimiter"]

\* ------------------------------------------------------------ main
\* Option parsing and the check of the argument count.
ParseArgs ==
    /\ pc = "start"
    /\ IF argc # 1 THEN SysExit("exit_usage") ELSE Goto("config")
    /\ UNCHANGED << inputs, fs, run, locals, calls, prev, succeeded >>

\* The chromatinData keys of step 1 are read; keeprunning starts at 0.
ReadChromatin ==
    /\ pc = "config"
    /\ LET missing == FirstMissing(<< "genefile", "bedfile", "xreffile", "windowsize" >>)
       IN IF missing = "" THEN Goto("step1") ELSE Raise(NoOptionError(missing))
    /\ keeprunning' = 0
    /\ UNCHANGED << inputs, fs, run, outfile, binding_out, binding_matrix, tfs,
                    calls, prev, succeeded >>

\* Whether step 1 is entered.
MapConfigured(genefile, bedfile) == genefile # None /\ bedfile # None

\* Step 1: map the regions to genes, or stop.
Step1 ==
    /\ pc = "step1"
    /\ IF MapConfigured(cfg["genefile"], cfg["bedfile"])
       THEN \E plan \in { mapGenesToRegionsPlan(cfg["genefile"], cfg["xreffile"],
                              cfg["bedfile"], Window(cfg), opts.outdir, fs) } :
            \E mk \in (IF plan.needDir THEN Results ELSE {0}),
               out \in OutcomesIf(plan.invoked) :
            \E r \in { mapGenesToRegions(plan, fs, mk, out) } :
               /\ keeprunning' = r.res
               /\ outfile' = r.out
               /\ fs' = r.fs
               /\ calls' = calls \o r.calls
               /\ StopOrGo(r.res, "exit_mapping", "step2")
       ELSE /\ SysExit("exit_missing")
            /\ UNCHANGED << keeprunning, outfile, fs, calls >>
    /\ UNCHANGED << inputs, run, binding_out, binding_matrix, tfs, prev, succeeded >>

\* Whether step 2 is entered at all.
ScanConfigured(tamofile, genome, fastafile) ==
    /\ tamofile # None /\ tamofile # Empty
    /\ genome # None
    /\ fastafile # None /\ fastafile # Empty

\* Step 2: scan the regions for motifs when the motif data is configured and
\* on disk, or stop.
Step2 ==
    /\ pc = "step2"
    /\ LET missing == FirstMissing(<< "tamo_file", "genome", "numthreads", "fastafile" >>)
       IN IF missing # ""
          THEN /\ Raise(NoOptionError(missing))
               /\ UNCHANGED << keeprunning, binding_out, fs, calls >>
          ELSE IF ScanConfigured(cfg["tamo_file"], cfg["genome"], cfg["fastafile"])
               THEN IF Exists(fs, cfg["tamo_file"]) /\ Exists(fs, cfg["fastafile"])
                    THEN \E plan \in { motifScanningPlan(cfg["tamo_file"],
                                           cfg["fastafile"], NumThreads(cfg),
                                           cfg["genome"], outfile, fs) } :
                         \E out \in OutcomesIf(plan.invoked) :
                         \E r \in { motifScanning(plan, fs, out) } :
                            /\ keeprunning' = r.res
                            /\ binding_out' = r.out
                            /\ fs' = r.fs
                            /\ calls' = calls \o r.calls
                            /\ StopOrGo(r.res, "exit_scanning", "step3")
                    ELSE /\ binding_out' = Empty
                         /\ StopOrGo(keeprunning, "exit_scanning", "step3")
                         /\ UNCHANGED << keeprunning, fs, calls >>
               ELSE /\ Goto("step3")
                    /\ UNCHANGED << keeprunning, binding_out, fs, calls >>
    /\ UNCHANGED << inputs, run, outfile, binding_matrix, tfs, prev, succeeded >>

\* Whether step 3 builds the matrix.
MatrixWanted(outf, bout) ==
    /\ outf # None /\ outf # Empty
    /\ bout # None /\ bout # Empty

\* Step 3: build the binding matrix from the scan, or stop.  Python reads
\* the condition left to right: binding_out is read when outfile passes,
\* and reading it unbound raises.
Step3 ==
    /\ pc = "step3"
    /\ IF outfile # None /\ outfile # Empty /\ binding_out = Unbound
       THEN /\ Raise(UnboundLocalError("binding_out"))
            /\ UNCHANGED << keeprunning, binding_matrix, fs, calls >>
       ELSE IF MatrixWanted(outfile, binding_out)
            THEN \E plan \in { createBindingMatrixPlan(binding_out, outfile,
                                   ReSub(DotXls, DotFsa, outfile),
                                   cfg["tamo_file"], FALSE, fs) } :
                 \E out \in OutcomesIf(plan.invoked) :
                 \E r \in { createBindingMatrix(plan, fs, out) } :
                    /\ keeprunning' = r.res
                    /\ binding_matrix' = r.out
                    /\ fs' = r.fs
                    /\ calls' = calls \o r.calls
                    /\ StopOrGo(r.res, "exit_matrix", "step4")
            ELSE /\ binding_matrix' = Empty
                 /\ StopOrGo(keeprunning, "exit_matrix", "step4")
                 /\ UNCHANGED << keeprunning, fs, calls >>
    /\ UNCHANGED << inputs, run, outfile, binding_out, tfs, prev, succeeded >>

\* Mutant: the network is made whatever doNetwork says.
NetworkWantedAlways(do_network) == TRUE

\* Mutant: the text False asks for the network too.
NetworkWantedAnyText(do_network) == do_network # None /\ do_network # Empty

\* Whether the network is asked for.
NetworkWanted(do_network) ==
    do_network # None /\ do_network # Empty /\ do_network # FalseStr

\* The command of the network step.
NetworkCmd(pkl, genome, delim, allgenes) ==
    [ prog |-> "zipTgms.py",
      pkl |-> pkl,
      genome |-> genome,
      tfDelimiter |-> delim,
      allGenes |-> allgenes ]

\* Mutant: a non-zero return of the network command stops the run.
Step4NetworkFatal ==
    /\ pc = "step4"
    /\ LET missing == FirstMissing(<< "doNetwork", "tfDelimiter" >>)
       IN IF missing # ""
          THEN /\ Raise(NoOptionError(missing))
               /\ UNCHANGED calls
          ELSE IF NetworkWanted(cfg["doNetwork"])
               THEN \E res \in Results :
                      /\ calls' = Append(calls,
                            [ stage |-> "NetworkExport",
                              cmd |-> NetworkCmd(binding_matrix, cfg["genome"],
                                                 Delim(cfg), opts.allgenes),
                              res |-> res ])
                      /\ StopOrGo(res, "exit_network", "step5")
               ELSE /\ Goto("step5")
                    /\ UNCHANGED calls
    /\ UNCHANGED << inputs, fs, run, locals, prev, succeeded >>

\* The network step: its command is run and its return value dropped.
Step4 ==
    /\ pc = "step4"
    /\ LET missing == FirstMissing(<< "doNetwork", "tfDelimiter" >>)
       IN IF missing # ""
          THEN /\ Raise(NoOptionError(missing))
               /\ UNCHANGED calls
          ELSE IF NetworkWanted(cfg["doNetwork"])
               THEN \E res \in Results :
                      /\ calls' = Append(calls,
                            [ stage |-> "NetworkExport",
                              cmd |-> NetworkCmd(binding_matrix, cfg["genome"],
                                                 Delim(cfg), opts.allgenes),
                              res |-> res ])
                      /\ Goto("step5")
               ELSE /\ Goto("step5")
                    /\ UNCHANGED calls
    /\ UNCHANGED << inputs, fs, run, locals, prev, succeeded >>

\* Whether step 4 of GARNET runs the regression.
RegressionWanted(f, expr, bmatrix) ==
    /\ expr # None /\ expr # Empty
    /\ bmatrix # Empty /\ Exists(f, bmatrix) /\ Exists(f, expr)

\* Step 4 of GARNET: the regression, and the end of main.
Step5 ==
    /\ pc = "step5"
    /\ LET missing == FirstMissing(<< "expressionFile", "pvalThresh", "qvalThresh" >>)
       IN IF missing # ""
          THEN /\ Raise(NoOptionError(missing))
               /\ UNCHANGED << keeprunning, tfs, fs, calls >>
          ELSE IF RegressionWanted(fs, cfg["expressionFile"], binding_matrix)
               THEN \E plan \in { getTfsFromRegressionPlan(binding_matrix,
                                      cfg["expressionFile"], cfg["pvalThresh"],
                                      cfg["qvalThresh"], fs) } :
                    \E out \in OutcomesIf(plan.invoked) :
                    \E r \in { getTfsFromRegression(plan, fs, out) } :
                       /\ keeprunning' = r.res
                       /\ tfs' = r.out
                       /\ fs' = r.fs
                       /\ calls' = calls \o r.calls
                       /\ StopOrGo(r.res, "exit_regression", "done")
               ELSE /\ StopOrGo(keeprunning, "exit_regression", "done")
                    /\ UNCHANGED << keeprunning, tfs, fs, calls >>
    /\ UNCHANGED << inputs, run, outfile, binding_out, binding_matrix, prev, succeeded >>

\* The run is over.
Ended == pc \in { "exit_usage", "exit_missing", "exit_mapping", "exit_scanning",
                  "exit_matrix", "exit_regression", "done", "crashed" }

\* The script is run again, with the same arguments and configuration, on
\* the filesystem the last run left.
Rerun ==
    /\ Ended
    /\ run < MaxRuns
    /\ run' = run + 1
    /\ prev' = RunState
    /\ succeeded' = succeeded \cup Returned0(calls)
    /\ pc' = StartState.pc
    /\ exitcode' = StartState.exitcode
    /\ error' = StartState.error
    /\ keeprunning' = StartState.keeprunning
    /\ outfile' = StartState.outfile
    /\ binding_out' = StartState.binding_out
    /\ binding_matrix' = StartState.binding_matrix
    /\ tfs' = StartState.tfs
    /\ calls' = StartState.calls
    /\ UNCHANGED << inputs, fs >>

Next ==
    \/ ParseArgs
    \/ ReadChromatin
    \/ Step1
    \/ Step2
    \/ Step3
    \/ Step4
    \/ Step5
    \/ Rerun

Spec == Init /\ [][Next]_vars


\* ------------------------------------------- getTfsFromRegression alone
\* The function called on its own, on every kind of threshold argument.
ThreshArgs ==
    { None, Empty, << "0", ".", "0", "1" >>, << "0", ".", "1" >>, Default005 }

PickleArgs == { << "m", ".", "p", "k", "l" >>, << "o", "/", "m", ".", "p", "k", "l" >> }

InitRegression ==
    /\ unit \in [ pickle_file : PickleArgs, expressionfile : {<< "x" >>},
                  pvalT : ThreshArgs, qvalT : ThreshArgs ]
    /\ fs \in { {unit.pickle_file, unit.expressionfile},
                {unit.pickle_file, unit.expressionfile, RegressionOut(unit.pickle_file)} }
    /\ argc = 1
    /\ opts = OptsOf(NoDeviation)
    /\ cfg = ConfigOf(NoDeviation)
    /\ run = 1
    /\ prev = NoRun
    /\ succeeded = {}
    /\ pc = "call"
    /\ exitcode = StartState.exitcode
    /\ error = StartState.error
    /\ keeprunning = StartState.keeprunning
    /\ outfile = StartState.outfile
    /\ binding_out = StartState.binding_out
    /\ binding_matrix = unit.pickle_file
    /\ tfs = StartState.tfs
    /\ calls = StartState.calls

CallRegression ==
    /\ pc = "call"
    /\ \E plan \in { getTfsFromRegressionPlan(unit.pickle_file, unit.expressionfile,
                         unit.pvalT, unit.qvalT, fs) } :
       \E out \in OutcomesIf(plan.invoked) :
       \E r \in { getTfsFromRegression(plan, fs, out) } :
          /\ keeprunning' = r.res
          /\ tfs' = r.out
          /\ fs' = r.fs
          /\ calls' = calls \o r.calls
    /\ pc' = "returned"
    /\ UNCHANGED << inputs, run, exitcode, error, outfile, binding_out,
                    binding_matrix, prev, succeeded >>

SpecRegression == InitRegression /\ [][CallRegression]_vars

\* ------------------------------------------------- the naming chain alone
\* The longest --outdir name tried.
MaxDirLen == 4

\* The characters of the --outdir names tried: letters of an extension, a
\* letter of none, and the dot.
DirChars == { "a", "x", "l", "s", "." }

\* The --outdir values tried: every name, and no --outdir at all.
DirNames == {None} \cup UNION { [1..n -> DirChars] : n \in 1..MaxDirLen }

InitNaming ==
    /\ opts \in [ outdir : DirNames, allgenes : {FALSE} ]
    /\ argc = 1
    /\ cfg = ConfigOf(NoDeviation)
    /\ fs = DiskOf(NoDeviation)
    /\ run = 1
    /\ prev = NoRun
    /\ succeeded = {}
    /\ unit = NoUnit
    /\ pc = "name"
    /\ exitcode = StartState.exitcode
    /\ error = StartState.error
    /\ keeprunning = StartState.keeprunning
    /\ outfile = StartState.outfile
    /\ binding_out = StartState.binding_out
    /\ binding_matrix = StartState.binding_matrix
    /\ tfs = StartState.tfs
    /\ calls = StartState.calls

\* The path each stage function computes from the path of the one before,
\* as main chains them.
NameArtifacts ==
    /\ pc = "name"
    /\ \E mapped \in { MapOutdir(cfg["bedfile"], Window(cfg), opts.outdir)
                          \o EventsToGenes } :
       \E scanned \in { MotifOut(cfg["fastafile"], mapped) } :
       \E pickled \in { PklFile(MatFile(scanned)) } :
          /\ outfile' = mapped
          /\ binding_out' = scanned
          /\ binding_matrix' = pickled
          /\ tfs' = RegressionOut(pickled)
    /\ pc' = "named"
    /\ UNCHANGED << inputs, fs, run, exitcode, error, keeprunning, calls, prev,
                    succeeded >>

SpecNaming == InitNaming /\ [][NameArtifacts]_vars

\* ============================================================== claims
\* The calls of this run to the sub scripts (mkdir is no stage).
StageCalls == SelectSeq(calls, LAMBDA c : c.stage # "mkdir")

\* The stages a sequence of calls went through, in order.
StagesOf(cs) == [i \in 1..Len(cs) |-> cs[i].stage]

\* Stage st has been invoked in this run.
Invoked(st) == \E i \in 1..Len(calls) : calls[i].stage = st

\* Key k is left out of the configuration file, or blank in it.
Absent(k) == k \notin DOMAIN cfg
Blank(k) == k \in DOMAIN cfg /\ cfg[k] = Empty
Unset(k) == Absent(k) \/ Blank(k)

\* The file key k names is on disk.
OnDisk(k) == k \in DOMAIN cfg /\ Exists(fs, cfg[k])

RequiredStages == { "GeneRegionMapping", "MotifScanning", "BindingMatrixConstruction" }

\* Where main stops when a stage fails.
AbortedAt(st) ==
    CASE st = "GeneRegionMapping" -> "exit_mapping"
      [] st = "MotifScanning" -> "exit_scanning"
      [] st = "BindingMatrixConstruction" -> "exit_matrix"
      [] st = "Regression" -> "exit_regression"
      [] OTHER -> "none"

\* C1: when the command of a required stage (gene-region mapping, motif
\* scanning, binding-matrix construction) returns non-zero, it is the last
\* command of the run and the run has ended aborted at that stage.
C1_AbortOnRequiredFailure ==
    \A i \in 1..Len(calls) :
        (calls[i].stage \in RequiredStages /\ calls[i].res # 0)
            => (i = Len(calls) /\ pc = AbortedAt(calls[i].stage))

\* C1 witness: the matrix step failed after mapping and scanning ran.
C1_Witness ==
    /\ pc = "exit_matrix"
    /\ StagesOf(StageCalls) =
           << "GeneRegionMapping", "MotifScanning", "BindingMatrixConstruction" >>
    /\ calls[Len(calls)].res # 0

\* The artifact paths of this run are those of the run before.
SameArtifacts ==
    /\ outfile = prev.outfile
    /\ binding_out = prev.binding_out
    /\ binding_matrix = prev.binding_matrix
    /\ tfs = prev.tfs

\* C2 as stated: a run after a completed run invokes no external process
\* at all, completes, and yields the same artifact paths.
C2_Original ==
    prev.pc = "done"
        => /\ calls = << >>
           /\ Ended => (pc = "done" /\ SameArtifacts)

\* C2 amended: a run after a completed run invokes no external process but
\* the network exporter (once, and only when doNetwork asks for it),
\* completes, and yields the same artifact paths.
C2_IdempotentButNetwork ==
    prev.pc = "done"
        => /\ \A i \in 1..Len(calls) :
                 /\ calls[i].stage = "NetworkExport"
                 /\ i = 1
                 /\ NetworkWanted(cfg["doNetwork"])
           /\ Ended => (pc = "done" /\ SameArtifacts)

\* C2 witness: the first run ran every stage, regression included; the
\* second completed with the network exporter as its only command.
C2_Witness ==
    /\ prev.pc = "done"
    /\ \E i \in 1..Len(prev.calls) : prev.calls[i].stage = "Regression"
    /\ pc = "done"
    /\ StagesOf(calls) = << "NetworkExport" >>

\* C3: the exit status of an ended run is 0 exactly when the run completed.
C3_ExitStatus == Ended => (exitcode = 0 <=> pc = "done")

\* C4: with the gene annotation, cross-reference, bed path or window size
\* left out or blank, the run invokes no external process.
C4_HardPrecondition ==
    (\E k \in {"genefile", "xreffile", "bedfile", "windowsize"} : Unset(k))
        => calls = << >>

\* Motif scanning cannot run: a motif key is unset or a motif file is not
\* on disk.
CannotScan ==
    \/ Unset("tamo_file") \/ Unset("genome") \/ Unset("fastafile")
    \/ ~ OnDisk("tamo_file") \/ ~ OnDisk("fastafile")

\* Step 1 is behind this run, it did not stop the run, and the file holds
\* every key other than the motif keys.
PastMapping ==
    /\ Keys \ {"tamo_file", "genome", "fastafile"} \subseteq DOMAIN cfg
    /\ \/ pc \in { "step2", "step3", "step4", "step5", "done",
                   "exit_scanning", "exit_matrix", "exit_regression" }
       \/ pc = "crashed" /\ outfile # Unbound

\* C5: after a successful mapping, when motif scanning cannot run, neither
\* it nor the matrix step is invoked, the binding matrix reference is empty,
\* and the run neither crashes nor aborts.
C5_ScanSkipped ==
    (CannotScan /\ PastMapping)
        => /\ ~ Invoked("MotifScanning")
           /\ ~ Invoked("BindingMatrixConstruction")
           /\ pc \in {"step4", "step5", "done"} => binding_matrix = Empty
           /\ pc \in {"step2", "step3", "step4", "step5", "done"}

\* The regression cannot run: no expression file is configured or on disk,
\* or no binding matrix is there.
CannotRegress ==
    \/ Unset("expressionFile") \/ ~ OnDisk("expressionFile")
    \/ binding_matrix = Empty \/ ~ Exists(fs, binding_matrix)

\* The run ended in the regression step, and the file holds every key
\* other than the expression file.
EndedInRegression ==
    /\ Keys \ {"expressionFile"} \subseteq DOMAIN cfg
    /\ \/ pc \in {"done", "exit_regression"}
       \/ pc = "crashed" /\ error.name = "expressionFile"

\* C6: the regression is invoked only with an expression file configured
\* and on disk and the binding matrix on disk; and a run that reaches the
\* regression step when it cannot run ends completed.
C6_RegressionSkipCompletes ==
    /\ Invoked("Regression")
          => /\ ~ Unset("expressionFile") /\ OnDisk("expressionFile")
             /\ binding_matrix # Empty /\ Exists(fs, binding_matrix)
    /\ (CannotRegress /\ EndedInRegression)
          => (pc = "done" /\ ~ Invoked("Regression"))

\* A threshold argument that is absent or blank.
NoThresh(t) == t = None \/ t = Empty

\* C7: the regression command carries the p-value threshold and no q-value
\* flag when the p-value threshold is non-empty; else the q-value threshold
\* and the q-value flag when that is non-empty; else 0.05 and no flag.
C7_ThresholdSelection ==
    \A i \in 1..Len(calls) :
        calls[i].stage = "Regression" =>
            LET c == calls[i].cmd
                p == unit.pvalT
                q == unit.qvalT
            IN /\ ~ NoThresh(p) => (c.thresh = p /\ ~ c.useQval)
               /\ (NoThresh(p) /\ ~ NoThresh(q)) => (c.thresh = q /\ c.useQval)
               /\ (NoThresh(p) /\ NoThresh(q)) => (c.thresh = Default005 /\ ~ c.useQval)

\* C7 witness: the regression ran with no p-value threshold given and a
\* q-value threshold set.
C7_Witness ==
    /\ pc = "returned"
    /\ unit.pvalT = None
    /\ unit.qvalT = << "0", ".", "1" >>
    /\ Len(calls) = 1
    /\ calls[1].cmd.useQval

\* The end-to-end scenario: a first run, on no artifact, given its
\* configuration file, with every key in the file, the chromatin and motif inputs set and on disk, no expression
\* file (blank, or not on disk), and no command returning non-zero.
EndToEnd ==
    /\ prev.pc = "none"
    /\ argc = 1
    /\ DOMAIN cfg = Keys
    /\ \A k \in {"genefile", "bedfile", "xreffile", "tamo_file", "fastafile"} : ~ Blank(k)
    /\ OnDisk("tamo_file") /\ OnDisk("fastafile")
    /\ Blank("expressionFile") \/ ~ OnDisk("expressionFile")
    /\ \A i \in 1..Len(calls) : calls[i].res = 0

\* C8: the end-to-end run ends completed; without the network it makes
\* exactly the three stage invocations mapping, scan, matrix; with
\* doNetwork=True it makes a fourth, the network export, which carries the
\* configured delimiter.
C8_EndToEnd ==
    (EndToEnd /\ Ended)
        => /\ pc = "done"
           /\ cfg["doNetwork"] = FalseStr
                 => StagesOf(StageCalls) =
                        << "GeneRegionMapping", "MotifScanning",
                           "BindingMatrixConstruction" >>
           /\ cfg["doNetwork"] = TrueStr
                 => /\ StagesOf(StageCalls) =
                           << "GeneRegionMapping", "MotifScanning",
                              "BindingMatrixConstruction", "NetworkExport" >>
                    /\ calls[Len(calls)].cmd.tfDelimiter = cfg["tfDelimiter"]

\* C8 witness: the end-to-end run with doNetwork=True and tfDelimiter=. has
\* completed after four stage invocations.
C8_Witness ==
    /\ EndToEnd
    /\ pc = "done"
    /\ cfg["doNetwork"] = TrueStr
    /\ cfg["tfDelimiter"] = << "." >>
    /\ Len(StageCalls) = 4
    /\ calls[Len(calls)].cmd.tfDelimiter = << "." >>

\* The value of key k, or default when it is left out or blank.
OrDefault(k, default) == IF Unset(k) THEN default ELSE cfg[k]

\* C9: the mapping command is built with window 2000 when windowsize is
\* unset, the scan command with 1 thread when numthreads is unset, the
\* network command with the empty delimiter when tfDelimiter is unset; no
\* command carries an empty window or thread count.
C9_Defaults ==
    \A i \in 1..Len(calls) :
        LET c == calls[i].cmd
        IN /\ calls[i].stage = "GeneRegionMapping"
                 => (c.upstreamWindow = OrDefault("windowsize", Default2000)
                       /\ c.upstreamWindow # Empty)
           /\ calls[i].stage = "MotifScanning"
                 => (c.threads = OrDefault("numthreads", Default1)
                       /\ c.threads # Empty)
           /\ calls[i].stage = "NetworkExport"
                 => c.tfDelimiter = OrDefault("tfDelimiter", Empty)

\* C10: the matrix step is invoked only on a non-empty mapping and scan
\* that this run has seen succeed or cached, and the network export only
\* on a non-empty binding matrix.
C10_UpstreamGating ==
    \A i \in 1..Len(calls) :
        LET c == calls[i].cmd
        IN /\ calls[i].stage = "BindingMatrixConstruction"
                 => /\ c.mapping # Empty /\ c.mapping = outfile
                    /\ c.motifs # Empty /\ c.motifs = binding_out
           /\ calls[i].stage = "NetworkExport"
                 => c.pkl # Empty

\* The network step is behind this run.
PastNetwork ==
    \/ pc \in {"step5", "done", "exit_regression"}
    \/ pc = "crashed" /\ error.name \in {"expressionFile", "pvalThresh", "qvalThresh"}

\* C11: the network exporter is invoked only when doNetwork is in the file
\* with a value that is neither blank nor the text False; a run that got
\* past the network step with doNetwork blank or False has not invoked it.
C11_NetworkGated ==
    /\ Invoked("NetworkExport")
          => /\ "doNetwork" \in DOMAIN cfg
             /\ cfg["doNetwork"] # Empty
             /\ cfg["doNetwork"] # FalseStr
    /\ (PastNetwork /\ (Unset("doNetwork") \/ cfg["doNetwork"] = FalseStr))
          => ~ Invoked("NetworkExport")

\* C11 witness: with doNetwork=True the run is past the network step and
\* the exporter was invoked.
C11_Witness ==
    /\ pc = "step5"
    /\ cfg["doNetwork"] = TrueStr
    /\ Invoked("NetworkExport")

\* The network exporter was invoked in this run and returned non-zero.
NetworkFailed ==
    \E i \in 1..Len(calls) : calls[i].stage = "NetworkExport" /\ calls[i].res # 0

ProgramState == << pc, exitcode, error, locals, fs >>

\* The step is a call of the network exporter that returns non-zero.
NetworkFailsNow ==
    /\ pc = "step4"
    /\ Len(calls') = Len(calls) + 1
    /\ calls'[Len(calls')].stage = "NetworkExport"
    /\ calls'[Len(calls')].res # 0

\* C13: the state of the script after a network exporter that returned
\* non-zero differs from its state after one that returned 0 (which goes on
\* to the regression step with nothing else changed): the exit status is
\* retained somewhere.
C13_NetworkFailureRecorded ==
    [][ NetworkFailsNow
          => ProgramState' # << "step5", exitcode, error, locals, fs >> ]_vars

\* The stages in the order main goes through them.
StageOrder ==
    << "GeneRegionMapping", "MotifScanning", "BindingMatrixConstruction",
       "NetworkExport", "Regression" >>

\* The place of stage st in that order.
StageIndex(st) == CHOOSE i \in 1..Len(StageOrder) : StageOrder[i] = st

\* The stages at which a run can abort.
AbortStages ==
    { "GeneRegionMapping", "MotifScanning", "BindingMatrixConstruction", "Regression" }

\* The run before this one aborted at stage st.
PrevAbortedAt(st) == prev.pc = AbortedAt(st)

\* A local bound in this run and in the run before has the same value.
SameWhereBound(now, before) == (now # Unbound /\ before # Unbound) => now = before

\* C14: in the run after one that aborted at stage S, no stage before S is
\* invoked, the first stage invoked is S, a run that ends has invoked S, and
\* the bypassed stages return the output paths they returned before.
C14_ResumeAtFailedStage ==
    \A st \in AbortStages :
        PrevAbortedAt(st)
            => /\ \A i \in 1..Len(StageCalls) :
                     StageIndex(StageCalls[i].stage) >= StageIndex(st)
               /\ StageCalls # << >> => StageCalls[1].stage = st
               /\ Ended => Invoked(st)
               /\ SameWhereBound(outfile, prev.outfile)
               /\ SameWhereBound(binding_out, prev.binding_out)
               /\ SameWhereBound(binding_matrix, prev.binding_matrix)

\* A path was computed: the local is bound and not ''.
Computed(path) == path # Unbound /\ path # Empty

\* A path computed in this run and in the run before is the same path.
SameWhereComputed(now, before) == (Computed(now) /\ Computed(before)) => now = before

\* C15: a run and the run before it, which have the same arguments and
\* configuration and differ in the filesystem they met and in what their
\* commands returned, compute the same output path for the mapping, the
\* motif scan, the binding matrix and the regression.
C15_NamingDeterminism ==
    prev.pc # "none"
        => /\ SameWhereComputed(outfile, prev.outfile)
           /\ SameWhereComputed(binding_out, prev.binding_out)
           /\ SameWhereComputed(binding_matrix, prev.binding_matrix)
           /\ SameWhereComputed(tfs, prev.tfs)

\* C15 witness: the run before met an empty output directory and aborted
\* at a failed regression; this run met its artifacts, was bypassed up to
\* the regression and completed, with all four paths computed in both.
C15_Witness ==
    /\ prev.pc = "exit_regression"
    /\ Computed(prev.tfs)
    /\ pc = "done"
    /\ Computed(outfile) /\ Computed(binding_out)
    /\ Computed(binding_matrix) /\ Computed(tfs)
    /\ tfs = prev.tfs

\* Path p ends in suffix.
EndsWith(p, suffix) ==
    /\ Len(p) >= Len(suffix)
    /\ SubSeq(p, Len(p) - Len(suffix) + 1, Len(p)) = suffix

\* Path p with its trailing old replaced by new, and nothing else touched.
ReplaceSuffix(p, old, new) ==
    IF EndsWith(p, old) THEN SubSeq(p, 1, Len(p) - Len(old)) \o new ELSE p

\* The directory part of path p.
Dirname(p) == SubSeq(p, 1, RFind(p, "/"))

\* C16: for every --outdir name, the scan output is the mapping output with
\* only its trailing .xls replaced by _with_motifs.txt, the pickle file is
\* that with only its trailing .txt replaced by .tgm and then .pkl, the
\* regression output is that with only its trailing .pkl replaced by
\* regression_results.xls, and all of them lie in the output directory.
C16_TrailingExtensionOnly ==
    pc = "named"
        => /\ binding_out = ReplaceSuffix(outfile, DotXls, WithMotifs)
           /\ binding_matrix =
                  ReplaceSuffix(ReplaceSuffix(binding_out, DotTxt, DotTgm), DotTgm, DotPkl)
           /\ tfs = ReplaceSuffix(binding_matrix, DotPkl, RegressionResults)
           /\ Dirname(binding_out) = Dirname(outfile)
           /\ Dirname(binding_matrix) = Dirname(outfile)
           /\ Dirname(tfs) = Dirname(outfile)

\* The five output paths of a run: mapping, scan, matrix file, pickle file,
\* regression.
OutputPaths ==
    << outfile, binding_out, MatFile(binding_out), binding_matrix, tfs >>

\* C17: the output paths of the mapping, the scan, the matrix step (matrix
\* file and pickle file) and the regression are pairwise distinct, and no
\* stage writes to a path it reads: the mapping not to the gene, xref or bed
\* file, the scan not to the motif or fasta file or the mapping output, the
\* matrix step not to the scan or mapping output or the .fsa file, the
\* regression not to the pickle or expression file.
C17_DistinctOutputs ==
    pc = "named"
        => /\ \A i, j \in 1..Len(OutputPaths) :
                 i # j => OutputPaths[i] # OutputPaths[j]
           /\ outfile \notin {cfg["genefile"], cfg["xreffile"], cfg["bedfile"]}
           /\ binding_out \notin {cfg["tamo_file"], cfg["fastafile"], outfile}
           /\ {MatFile(binding_out), binding_matrix}
                 \cap {binding_out, outfile, ReSub(DotXls, DotFsa, outfile)} = {}
           /\ tfs \notin {binding_matrix, cfg["expressionFile"]}

\* C17 witness: the paths were computed for an output directory whose name
\* the substitutions rewrite, so that the scan output lies elsewhere.
C17_Witness ==
    /\ pc = "named"
    /\ opts.outdir = << "a", "x", "l", "s" >>
    /\ Dirname(binding_out) # Dirname(outfile)
    /\ Computed(tfs)

\* C18: within a run the stage commands are invoked in the order mapping,
\* scan, matrix, network, regression, each at most once, and each command
\* in the record has returned its exit status before the next was started.
C18_LinearOrder ==
    /\ \A i, j \in 1..Len(StageCalls) :
          i < j => StageIndex(StageCalls[i].stage) < StageIndex(StageCalls[j].stage)
    /\ \A i \in 1..Len(calls) : calls[i].res \in Results

\* C18 witness: a run completed after invoking all five stages.
C18_Witness ==
    /\ pc = "done"
    /\ StagesOf(StageCalls) = StageOrder

\* The path stage st returned in this run.
Returned(st) ==
    CASE st = "GeneRegionMapping" -> outfile
      [] st = "MotifScanning" -> binding_out
      [] st = "BindingMatrixConstruction" -> binding_matrix
      [] st = "Regression" -> tfs

\* Stage st was bypassed as cached in this run: it returned its path
\* without its command being invoked.
Bypassed(st) == Computed(Returned(st)) /\ ~ Invoked(st)

\* C19: a stage is bypassed as cached only when a command of that stage
\* returned 0 in an earlier run; a stage whose commands so far all returned
\* non-zero is invoked again.
C19_CacheHitMeansSuccess ==
    \A st \in AbortStages : Bypassed(st) => st \in succeeded

====
